---- MODULE Spec2Model ----
(***************************************************************************)
(* A model of vectorbt/strategy.py: the indicator sweeps (ma_nb, bb_nb,    *)
(* rsi_nb) with their window cache, and the stop-loss / trailing-stop exit *)
(* generators (stoploss_exits_nb, tstop_exits_nb) with their exit masks.   *)
(*                                                                         *)
(* Arrays are 1-based sequences here: the code's index t is t + 1 below.   *)
(* An f8 is an exact rational n/d or one of NaN, +inf, -inf; rounding is   *)
(* not modelled.                                                           *)
(***************************************************************************)
EXTENDS Integers, Sequences, FiniteSets, TLC

VARIABLES
    \* ---- arguments of the call (fixed after Init)
    call,            \* which function runs: "stoploss", "tstop", "mask", "ma", "bb", "rsi"
    ts,              \* f8[:, :]   price matrix, ts[t][c]
    entries,         \* b1[:, :]   entry signals, entries[t][c]
    stops,           \* f8[:, :, :] stop cube, stops[p][t][c]
    is_relative,     \* b1
    only_first,      \* b1
    fast_windows,    \* i8[:]  (ns for bb_nb, windows for rsi_nb)
    slow_windows,    \* i8[:]  (ks for bb_nb)
    ewm, adjust, min_periods,
    \* ---- control
    pc,
    \* ---- stoploss_exits_nb / tstop_exits_nb and the scan they drive
    i,               \* loop index of the sweep (over stops, over windows)
    col_idx,         \* column being scanned
    t_idx,           \* time index being scanned
    state,           \* "FLAT" or "ARMED"
    entry_idx,       \* the entry the current episode is anchored at (0: none)
    exit_mask,       \* the mask the exit-mask function returned for entry_idx
    i_exits,         \* the block generate_exits_nb is building
    exits,           \* the (T, C*P) result
    trig,            \* history: <<p, c, entry index, exit index>> of every exit emitted
    \* ---- tstop_exit_mask_nb, line by line
    peak, raising_idxs, stop_lvl, thr,
    \* ---- ma_nb / bb_nb / rsi_nb
    unique_windows,  \* the windows the cache loop iterates over
    cache_d,         \* window -> cached statistic(s)
    raw_d,           \* history: window -> what the rolling routine returned
    n_roll,          \* history: number of rolling-statistic computations started
    out              \* the result matrices being assembled

argVars  == <<call, ts, entries, stops, is_relative, only_first,
              fast_windows, slow_windows, ewm, adjust, min_periods>>
scanVars == <<i, col_idx, t_idx, state, entry_idx, exit_mask, i_exits, exits, trig>>
maskVars == <<peak, raising_idxs, stop_lvl, thr>>
indVars  == <<unique_windows, cache_d, raw_d, n_roll, out>>
vars     == <<argVars, pc, scanVars, maskVars, indVars>>

(***************************************************************************)
(* Bounds                                                                  *)
(***************************************************************************)
MaxT == 4

(***************************************************************************)
(* f8 values                                                               *)
(***************************************************************************)
Rat(n, d) == [k |-> "num", n |-> n, d |-> d]
Num(n)    == Rat(n, 1)
NaN       == [k |-> "nan", n |-> 0, d |-> 1]
PosInf    == [k |-> "inf", n |-> 1, d |-> 1]
NegInf    == [k |-> "inf", n |-> -1, d |-> 1]
Uninit    == [k |-> "empty", n |-> 0, d |-> 1]

IsNum(x) == x.k = "num"
IsNaN(x) == x.k = "nan"
Sgn(n)   == IF n > 0 THEN 1 ELSE IF n < 0 THEN -1 ELSE 0
\* the sign of a non-NaN value
FSgn(x)  == Sgn(x.n)
Inf(s)   == IF s > 0 THEN PosInf ELSE NegInf

\* x < y (false whenever a NaN is involved)
FLt(x, y) ==
    IF IsNaN(x) \/ IsNaN(y) THEN FALSE
    ELSE IF IsNum(x) /\ IsNum(y) THEN x.n * y.d < y.n * x.d
    ELSE IF IsNum(x) THEN y.n > 0
    ELSE IF IsNum(y) THEN x.n < 0
    ELSE x.n < y.n

\* x == y as floats (NaN equals nothing)
FEq(x, y) ==
    IF IsNaN(x) \/ IsNaN(y) THEN FALSE
    ELSE IF IsNum(x) /\ IsNum(y) THEN x.n * y.d = y.n * x.d
    ELSE x.k = y.k /\ x.n = y.n

FNeg(x) == IF IsNaN(x) THEN NaN ELSE [x EXCEPT !.n = -x.n]

FAdd(x, y) ==
    IF IsNaN(x) \/ IsNaN(y) THEN NaN
    ELSE IF IsNum(x) /\ IsNum(y) THEN Rat(x.n * y.d + y.n * x.d, x.d * y.d)
    ELSE IF IsNum(x) THEN y
    ELSE IF IsNum(y) THEN x
    ELSE IF x.n = y.n THEN x ELSE NaN

FSub(x, y) == FAdd(x, FNeg(y))

FMul(x, y) ==
    IF IsNaN(x) \/ IsNaN(y) THEN NaN
    ELSE IF IsNum(x) /\ IsNum(y) THEN Rat(x.n * y.n, x.d * y.d)
    ELSE IF FSgn(x) = 0 \/ FSgn(y) = 0 THEN NaN
    ELSE Inf(FSgn(x) * FSgn(y))

FDiv(x, y) ==
    IF IsNaN(x) \/ IsNaN(y) THEN NaN
    ELSE IF IsNum(x) /\ IsNum(y) THEN
        IF y.n # 0 THEN Rat(x.n * y.d * Sgn(y.n), x.d * y.n * Sgn(y.n))
        ELSE IF x.n = 0 THEN NaN ELSE Inf(Sgn(x.n))
    ELSE IF IsNum(x) THEN Num(0)
    ELSE IF IsNum(y) THEN Inf(FSgn(x) * (IF FSgn(y) < 0 THEN -1 ELSE 1))
    ELSE NaN

One == Num(1)

\* ---- small array helpers
NRows(a) == Len(a)
NCols(a) == Len(a[1])
Column(a, c) == [t \in 1..Len(a) |-> a[t][c]]
Full(n, m, v) == [t \in 1..n |-> [c \in 1..m |-> v]]

SetCell(a, t, c, v) == [a EXCEPT ![t][c] = v]

(***************************************************************************)
(* Routines of vectorbt.timeseries used by the exit masks                  *)
(***************************************************************************)
FMax2(x, y) == IF FLt(x, y) THEN y ELSE x

\* rolling_max_nb(a, None): the expanding maximum of a column
rolling_max_nb(a) ==
    LET m[t \in 1..Len(a)] == IF t = 1 THEN a[1] ELSE FMax2(m[t - 1], a[t])
    IN  [t \in 1..Len(a) |-> m[t]]

\* pct_change_nb(a): (a[t] - a[t-1]) / a[t-1], NaN in the first row
pct_change_nb(a) ==
    [t \in 1..Len(a) |->
        IF t = 1 THEN NaN ELSE FDiv(FSub(a[t], a[t - 1]), a[t - 1])]

\* np.flatnonzero: the indices whose value is not zero (a NaN is not zero)
flatnonzero(a) == {t \in 1..Len(a) : ~FEq(a[t], Num(0))}

\* ffill_nb(a): every NaN takes the last value before it that is not NaN
ffill_nb(a) ==
    LET f[t \in 1..Len(a)] ==
            IF ~IsNaN(a[t]) THEN a[t] ELSE IF t = 1 THEN NaN ELSE f[t - 1]
    IN  [t \in 1..Len(a) |-> f[t]]

\* fillna_nb(a, v): every NaN becomes v
fillna_nb(a, v) == [t \in 1..Len(a) |-> IF IsNaN(a[t]) THEN v ELSE a[t]]

(***************************************************************************)
(* stoploss_exit_mask_nb                                                   *)
(***************************************************************************)
\* variant: the stop is read at the scan index, not at the entry
stoploss_exit_mask_nb_scan(ents, c, e, tsm, stop, rel) ==
    LET col == Column(tsm, c)
    IN  [t \in 1..Len(col) |->
            FLt(col[t], IF rel THEN FMul(FSub(One, stop[t][c]), col[e])
                               ELSE stop[t][c])]

stoploss_exit_mask_nb(ents, c, e, tsm, stop, rel) ==
    LET col == Column(tsm, c)
        \* Stop is defined at the entry point
        s0  == stop[e][c]
        s   == IF rel THEN FMul(FSub(One, s0), col[e]) ELSE s0
    IN  [t \in 1..Len(col) |-> FLt(col[t], s)]

(***************************************************************************)
(* tstop_exit_mask_nb, line by line                                        *)
(***************************************************************************)
\* variant: the expanding maximum starts at the first row
tstop_peak_whole(col, e) == rolling_max_nb(col)

\* variant: the price itself, no expanding maximum
tstop_peak_raw(col, e) == [t \in 1..Len(col) |-> IF t < e THEN NaN ELSE col[t]]

\* lines 251-253: NaN before the entry, the expanding maximum from it on
tstop_peak(col, e) ==
    LET tail == rolling_max_nb(SubSeq(col, e, Len(col)))
    IN  [t \in 1..Len(col) |-> IF t < e THEN NaN ELSE tail[t - e + 1]]

\* line 254: np.min(stop) != np.max(stop)
StopVaries(stop) ==
    \/ \E a \in 1..Len(stop) : IsNaN(stop[a])
    \/ \E a, b \in 1..Len(stop) : ~FEq(stop[a], stop[b])

\* line 256
tstop_raising_idxs(pk) == flatnonzero(pct_change_nb(pk))

\* variant: stop_temp starts as NaN, so that ffill_nb has something to fill
tstop_level_nanfill(stop, pk) ==
    IF StopVaries(stop)
    THEN LET stop_temp == [t \in 1..Len(stop) |->
                              IF t \in tstop_raising_idxs(pk) THEN stop[t] ELSE NaN]
         IN  fillna_nb(ffill_nb(stop_temp), NegInf)
    ELSE stop

\* lines 254-259: the stop level in force at every index
tstop_level(stop, pk) ==
    IF StopVaries(stop)
    THEN LET stop_temp == [t \in 1..Len(stop) |->
                              IF t \in tstop_raising_idxs(pk) THEN stop[t] ELSE NegInf]
         IN  fillna_nb(ffill_nb(stop_temp), NegInf)
    ELSE stop

\* lines 260-261
tstop_threshold(lvl, pk, rel) ==
    IF rel THEN [t \in 1..Len(lvl) |-> FMul(FSub(One, lvl[t]), pk[t])] ELSE lvl

\* line 262
tstop_breach(col, th) == [t \in 1..Len(col) |-> FLt(col[t], th[t])]

tstop_exit_mask_nb(ents, c, e, tsm, stop, rel) ==
    LET col == Column(tsm, c)
        pk  == tstop_peak(col, e)
        lvl == tstop_level(Column(stop, c), pk)
    IN  tstop_breach(col, tstop_threshold(lvl, pk, rel))

(***************************************************************************)
(* stoploss_exits_nb / tstop_exits_nb: the sweep over the stop cube        *)
(***************************************************************************)
T == Len(ts)
C == Len(ts[1])
P == Len(stops)

AllFalse(n) == [t \in 1..n |-> FALSE]
NoBlock     == [t \in 1..T |-> [c \in 1..C |-> FALSE]]

\* variant: every iteration scans with the first stop matrix
ScanStop_first == stops[1]

\* the stop matrix handed to generate_exits_nb in iteration i: stops[i, :, :]
ScanStop == stops[i]

\* variant: only_first is not passed on
ScanOnlyFirst_dropped == FALSE

\* the only_first handed to generate_exits_nb
ScanOnlyFirst == only_first

\* the exit-mask function handed to generate_exits_nb, applied to an entry
ExitMaskFunc(e) ==
    IF call = "stoploss"
    THEN stoploss_exit_mask_nb(entries, col_idx, e, ts, ScanStop, is_relative)
    ELSE tstop_exit_mask_nb(entries, col_idx, e, ts, ScanStop, is_relative)

\* exits[:, i*C:(i+1)*C]: the result column that column c of block p lands in
BlockColumn(p, c) == (p - 1) * C + c

(***************************************************************************)
(* generate_exits_nb (vectorbt.signals): the scan of one column, one time  *)
(* index per step.                                                         *)
(***************************************************************************)
Emit(t) ==
    /\ i_exits' = SetCell(i_exits, t, col_idx, TRUE)
    /\ trig' = Append(trig, [p |-> i, c |-> col_idx, entry |-> entry_idx, exit |-> t])

\* FLAT -> ARMED at an entry
Arm ==
    /\ pc = "scan" /\ t_idx <= T
    /\ state = "FLAT" /\ entries[t_idx][col_idx]
    /\ state' = "ARMED"
    /\ entry_idx' = t_idx
    /\ exit_mask' = ExitMaskFunc(t_idx)
    /\ t_idx' = t_idx + 1
    /\ UNCHANGED <<argVars, pc, i, col_idx, i_exits, exits, trig, maskVars, indVars>>

\* FLAT, no entry, nothing to mark
Skip ==
    /\ pc = "scan" /\ t_idx <= T
    /\ state = "FLAT" /\ ~entries[t_idx][col_idx] /\ ~exit_mask[t_idx]
    /\ t_idx' = t_idx + 1
    /\ UNCHANGED <<argVars, pc, i, col_idx, state, entry_idx, exit_mask, i_exits,
                   exits, trig, maskVars, indVars>>

\* not only_first: a later breach of the closed episode, before the next entry
Mark ==
    /\ pc = "scan" /\ t_idx <= T
    /\ state = "FLAT" /\ ~entries[t_idx][col_idx] /\ exit_mask[t_idx]
    /\ Emit(t_idx)
    /\ t_idx' = t_idx + 1
    /\ UNCHANGED <<argVars, pc, i, col_idx, state, entry_idx, exit_mask,
                   exits, maskVars, indVars>>

\* ARMED, no breach at this index: an entry here is ignored
Hold ==
    /\ pc = "scan" /\ t_idx <= T
    /\ state = "ARMED" /\ ~exit_mask[t_idx]
    /\ t_idx' = t_idx + 1
    /\ UNCHANGED <<argVars, pc, i, col_idx, state, entry_idx, exit_mask, i_exits,
                   exits, trig, maskVars, indVars>>

\* ARMED -> FLAT at the first breach after the entry
Exit ==
    /\ pc = "scan" /\ t_idx <= T
    /\ state = "ARMED" /\ exit_mask[t_idx]
    /\ Emit(t_idx)
    /\ state' = "FLAT"
    /\ exit_mask' = IF ScanOnlyFirst THEN AllFalse(T) ELSE exit_mask
    /\ t_idx' = t_idx + 1
    /\ UNCHANGED <<argVars, pc, i, col_idx, entry_idx, exits, maskVars, indVars>>

\* end of the column: the episode, if any, stays open
NextCol ==
    /\ pc = "scan" /\ t_idx = T + 1
    /\ IF col_idx < C
       THEN /\ col_idx' = col_idx + 1
            /\ t_idx' = 1
            /\ state' = "FLAT"
            /\ entry_idx' = 0
            /\ exit_mask' = AllFalse(T)
            /\ pc' = pc
       ELSE /\ pc' = "store"
            /\ UNCHANGED <<col_idx, t_idx, state, entry_idx, exit_mask>>
    /\ UNCHANGED <<argVars, i, i_exits, exits, trig, maskVars, indVars>>

\* lines 225-227 / 269-271: the block is written, the loop goes on
StoreBlock ==
    /\ pc = "store"
    /\ exits' = [cc \in 1..(C * P) |->
                    IF \E c \in 1..C : cc = BlockColumn(i, c)
                    THEN Column(i_exits, CHOOSE c \in 1..C : cc = BlockColumn(i, c))
                    ELSE exits[cc]]
    /\ IF i < P
       THEN /\ i' = i + 1
            /\ pc' = "scan"
            /\ col_idx' = 1 /\ t_idx' = 1 /\ state' = "FLAT" /\ entry_idx' = 0
            /\ exit_mask' = AllFalse(T)
            /\ i_exits' = NoBlock
       ELSE /\ pc' = "done"
            /\ UNCHANGED <<i, col_idx, t_idx, state, entry_idx, exit_mask, i_exits>>
    /\ UNCHANGED <<argVars, trig, maskVars, indVars>>

NextExit == Arm \/ Skip \/ Mark \/ Hold \/ Exit \/ NextCol \/ StoreBlock

(***************************************************************************)
(* The calls checked: generate_stoploss_exits / generate_tstop_exits       *)
(***************************************************************************)
Prices == {Num(1), Num(2)}

\* stop levels: 0.2 and 0.5 of the price (relative), 0.5 and 1.5 (absolute)
StopLevels(rel) == IF rel THEN {Rat(2, 10), Rat(5, 10)} ELSE {Rat(5, 10), Rat(15, 10)}

\* (T, C) of the broadcast ts and entries
Shapes == {<<MaxT, 1>>, <<2, 2>>}

\* number of stops in a sweep of numbers
StopCounts == {2}

\* @broadcast('ts', 'entries'): a price column broadcast over C columns
BroadcastColumn(col, m) == [t \in 1..Len(col) |-> [c \in 1..m |-> col[t]]]

\* @broadcast_to_cube_of('stops', 'ts'): an array of numbers, one per block
CubeOfNumbers(lv, n, m) == [p \in 1..Len(lv) |-> Full(n, m, lv[p])]

\* ... or one matrix of the shape of ts, here of one column
CubeOfMatrix(col) == <<[t \in 1..Len(col) |-> <<col[t]>>]>>

Idle == <<>>

InitScan ==
    /\ pc = "scan"
    /\ i = 1 /\ col_idx = 1 /\ t_idx = 1
    /\ state = "FLAT" /\ entry_idx = 0
    /\ exit_mask = AllFalse(T)
    /\ i_exits = NoBlock
    /\ exits = [cc \in 1..(C * P) |-> <<>>]
    /\ trig = <<>>
    /\ peak = Idle /\ raising_idxs = {} /\ stop_lvl = Idle /\ thr = Idle
    /\ unique_windows = Idle /\ cache_d = Idle /\ raw_d = Idle /\ n_roll = 0
    /\ out = Idle
    /\ fast_windows = Idle /\ slow_windows = Idle
    /\ ewm = FALSE /\ adjust = FALSE /\ min_periods = FALSE

\* price = [10, 9, 11, 8, 12], one entry at the start, stop 0.1 relative
ScenarioStoploss ==
    /\ call = "stoploss"
    /\ ts = <<<<Num(10)>>, <<Num(9)>>, <<Num(11)>>, <<Num(8)>>, <<Num(12)>>>>
    /\ entries = <<<<TRUE>>, <<FALSE>>, <<FALSE>>, <<FALSE>>, <<FALSE>>>>
    /\ stops = CubeOfNumbers(<<Rat(1, 10)>>, 5, 1)
    /\ is_relative = TRUE /\ only_first = TRUE

\* price = [10, 12, 11, 15, 9], one entry at the start, stop 0.2 relative
ScenarioTstop ==
    /\ call = "tstop"
    /\ ts = <<<<Num(10)>>, <<Num(12)>>, <<Num(11)>>, <<Num(15)>>, <<Num(9)>>>>
    /\ entries = <<<<TRUE>>, <<FALSE>>, <<FALSE>>, <<FALSE>>, <<FALSE>>>>
    /\ stops = CubeOfNumbers(<<Rat(2, 10)>>, 5, 1)
    /\ is_relative = TRUE /\ only_first = TRUE

InitExit ==
    /\ \/ /\ call \in {"stoploss", "tstop"}
          /\ is_relative \in BOOLEAN
          /\ only_first \in BOOLEAN
          /\ \E shape \in Shapes :
                /\ \E col \in [1..shape[1] -> Prices] : ts = BroadcastColumn(col, shape[2])
                /\ entries \in [1..shape[1] -> [1..shape[2] -> BOOLEAN]]
                /\ \/ \E n \in StopCounts : \E lv \in [1..n -> StopLevels(is_relative)] :
                         stops = CubeOfNumbers(lv, shape[1], shape[2])
                   \/ /\ shape[2] = 1 /\ call = "stoploss" /\ only_first
                      /\ \E col \in [1..shape[1] -> StopLevels(is_relative)] :
                            stops = CubeOfMatrix(col)
       \/ ScenarioStoploss
       \/ ScenarioTstop
    /\ InitScan

SpecExit == InitExit /\ [][NextExit]_vars

(***************************************************************************)
(* One call of tstop_exit_mask_nb, a line (or block of lines) per step     *)
(***************************************************************************)
MaskPrices == {Num(1), Num(2), Num(3)}

MaskCol  == Column(ts, 1)
MaskStop == Column(stops[1], 1)

\* lines 249-253
MaskPeak ==
    /\ pc = "mask_peak"
    /\ peak' = tstop_peak(MaskCol, entry_idx)
    /\ pc' = IF StopVaries(MaskStop) THEN "mask_raising" ELSE "mask_level"
    /\ UNCHANGED <<argVars, scanVars, raising_idxs, stop_lvl, thr, indVars>>

\* line 256, inside the branch of line 254
MaskRaising ==
    /\ pc = "mask_raising"
    /\ raising_idxs' = tstop_raising_idxs(peak)
    /\ pc' = "mask_level"
    /\ UNCHANGED <<argVars, scanVars, peak, stop_lvl, thr, indVars>>

\* lines 254-259
MaskLevel ==
    /\ pc = "mask_level"
    /\ stop_lvl' = tstop_level(MaskStop, peak)
    /\ pc' = "mask_thr"
    /\ UNCHANGED <<argVars, scanVars, peak, raising_idxs, thr, indVars>>

\* lines 260-261
MaskThreshold ==
    /\ pc = "mask_thr"
    /\ thr' = tstop_threshold(stop_lvl, peak, is_relative)
    /\ pc' = "mask_ret"
    /\ UNCHANGED <<argVars, scanVars, peak, raising_idxs, stop_lvl, indVars>>

\* line 262
MaskReturn ==
    /\ pc = "mask_ret"
    /\ exit_mask' = tstop_breach(MaskCol, thr)
    /\ pc' = "mask_done"
    /\ UNCHANGED <<argVars, i, col_idx, t_idx, state, entry_idx, i_exits, exits, trig,
                   maskVars, indVars>>

NextMask == MaskPeak \/ MaskRaising \/ MaskLevel \/ MaskThreshold \/ MaskReturn

InitMask ==
    /\ call = "mask"
    /\ is_relative \in BOOLEAN
    /\ only_first = TRUE
    /\ \E col \in [1..MaxT -> MaskPrices] : ts = BroadcastColumn(col, 1)
    /\ \E col \in [1..MaxT -> StopLevels(is_relative)] : stops = CubeOfMatrix(col)
    /\ entry_idx \in 1..MaxT
    /\ entries = [t \in 1..MaxT |-> <<t = entry_idx>>]
    /\ pc = "mask_peak"
    /\ i = 1 /\ col_idx = 1 /\ t_idx = 1
    /\ state = "ARMED"
    /\ exit_mask = Idle
    /\ i_exits = Idle /\ exits = Idle /\ trig = <<>>
    /\ peak = Idle /\ raising_idxs = {} /\ stop_lvl = Idle /\ thr = Idle
    /\ unique_windows = Idle /\ cache_d = Idle /\ raw_d = Idle /\ n_roll = 0
    /\ out = Idle
    /\ fast_windows = Idle /\ slow_windows = Idle
    /\ ewm = FALSE /\ adjust = FALSE /\ min_periods = FALSE

SpecMask == InitMask /\ [][NextMask]_vars

(***************************************************************************)
(* Routines of vectorbt.timeseries used by the indicators.  Each takes a   *)
(* (T, C) matrix and returns one of the same shape.                        *)
(***************************************************************************)
RECURSIVE GCD(_, _)
GCD(a, b) == IF b = 0 THEN a ELSE GCD(b, a % b)

Abs(n) == IF n < 0 THEN -n ELSE n

\* the same number in lowest terms
Norm(x) ==
    IF ~IsNum(x) THEN x
    ELSE IF x.n = 0 THEN Num(0)
    ELSE LET g == GCD(Abs(x.n), x.d) IN Rat(x.n \div g, x.d \div g)

RECURSIVE FSum(_, _, _)
\* a[lo] + ... + a[hi] of a column
FSum(a, lo, hi) == IF lo > hi THEN Num(0) ELSE Norm(FAdd(FSum(a, lo, hi - 1), a[hi]))

MapColumns(a, F(_)) ==
    LET cols == [c \in 1..NCols(a) |-> F(Column(a, c))]
    IN  [t \in 1..NRows(a) |-> [c \in 1..NCols(a) |-> cols[c][t]]]

\* a rolling routine rejects a window <= 0 (InvalidParameter)
RollingRejects(w) == w <= 0

WinLo(t, w) == IF t - w + 1 < 1 THEN 1 ELSE t - w + 1

\* rolling_mean_nb(a, w): the mean of the last w rows, of the rows there are
\* while fewer than w
MeanColumn(col, w) ==
    [t \in 1..Len(col) |->
        Norm(FDiv(FSum(col, WinLo(t, w), t), Num(t - WinLo(t, w) + 1)))]

rolling_mean_nb(a, w) == MapColumns(a, LAMBDA col : MeanColumn(col, w))

\* the square root, kept symbolic
Sqrt(x) == IF IsNum(x) THEN [k |-> "sqrt", n |-> x.n, d |-> x.d] ELSE x

\* rolling_std_nb(a, w): the deviation over the same window
StdColumn(col, w) ==
    LET sq == [t \in 1..Len(col) |-> FMul(col[t], col[t])]
        m  == MeanColumn(col, w)
        m2 == MeanColumn(sq, w)
    IN  [t \in 1..Len(col) |-> Sqrt(Norm(FSub(m2[t], FMul(m[t], m[t]))))]

rolling_std_nb(a, w) == MapColumns(a, LAMBDA col : StdColumn(col, w))

\* ewma_nb(a, w, adjust): exponential weights, alpha = 2 / (w + 1)
EwmaColumn(col, w, adj) ==
    LET alpha == Rat(2, w + 1)
        beta  == Rat(w - 1, w + 1)
        \* unadjusted recurrence
        y[t \in 1..Len(col)] ==
            IF t = 1 THEN col[1]
            ELSE Norm(FAdd(FMul(beta, y[t - 1]), FMul(alpha, col[t])))
        \* adjusted: weighted sum and sum of weights
        num[t \in 1..Len(col)] ==
            IF t = 1 THEN col[1] ELSE Norm(FAdd(FMul(beta, num[t - 1]), col[t]))
        den[t \in 1..Len(col)] ==
            IF t = 1 THEN One ELSE Norm(FAdd(FMul(beta, den[t - 1]), One))
    IN  [t \in 1..Len(col) |-> IF adj THEN Norm(FDiv(num[t], den[t])) ELSE y[t]]

ewma_nb(a, w, adj) == MapColumns(a, LAMBDA col : EwmaColumn(col, w, adj))

\* diff_nb(a)[1:, :]: the first difference without its first (NaN) row
diff_tail(a) ==
    [t \in 1..(NRows(a) - 1) |-> [c \in 1..NCols(a) |-> FSub(a[t + 1][c], a[t][c])]]

\* set_by_mask_nb(a, a < 0, 0)
zero_negative(a) ==
    [t \in 1..NRows(a) |-> [c \in 1..NCols(a) |->
        IF FLt(a[t][c], Num(0)) THEN Num(0) ELSE a[t][c]]]

\* np.abs(set_by_mask_nb(a, a > 0, 0))
abs_zero_positive(a) ==
    [t \in 1..NRows(a) |-> [c \in 1..NCols(a) |->
        IF FLt(Num(0), a[t][c]) THEN Num(0)
        ELSE IF IsNum(a[t][c]) THEN Rat(Abs(a[t][c].n), a[t][c].d) ELSE a[t][c]]]

\* prepend_nb(a, 1, np.nan)
prepend_nb(a, m) == <<[c \in 1..m |-> NaN]>> \o a

\* np.unique: the distinct values, ascending
RECURSIVE SortedSeq(_)
SortedSeq(S) ==
    IF S = {} THEN <<>>
    ELSE LET m == CHOOSE x \in S : \A y \in S : x <= y
         IN  <<m>> \o SortedSeq(S \ {m})

Range(f) == {f[x] : x \in DOMAIN f}

np_unique(a) == SortedSeq(Range(a))

(***************************************************************************)
(* ma_nb, bb_nb, rsi_nb: the cache loop, then the stacking loop            *)
(***************************************************************************)
\* number of parameter combinations (blocks) of the sweep
K == Len(fast_windows)

\* the windows the cache loop goes through: np.unique(...) in ma_nb (line 22)
\* and rsi_nb (line 150), ns itself in bb_nb (line 85)
CacheKeys ==
    IF call = "ma" THEN np_unique(fast_windows \o slow_windows)
    ELSE IF call = "rsi" THEN np_unique(fast_windows)
    ELSE fast_windows

\* rsi_nb lines 145-148
RsiUp   == zero_negative(diff_tail(ts))
RsiDown == abs_zero_positive(diff_tail(ts))

\* what the rolling routines return for window w, before the min_periods rule:
\* ma_nb 28-31, bb_nb 86-87, rsi_nb 156-163
RollingStat(w) ==
    IF call = "ma" THEN
        <<IF ewm THEN ewma_nb(ts, w, adjust) ELSE rolling_mean_nb(ts, w)>>
    ELSE IF call = "bb" THEN
        <<rolling_mean_nb(ts, w), rolling_std_nb(ts, w)>>
    ELSE
        <<prepend_nb(IF ewm THEN ewma_nb(RsiUp, w, adjust)
                            ELSE rolling_mean_nb(RsiUp, w), C),
          prepend_nb(IF ewm THEN ewma_nb(RsiDown, w, adjust)
                            ELSE rolling_mean_nb(RsiDown, w), C)>>

\* the rows a[:w, :] selects
SliceRows(n, w) ==
    IF w >= 0 THEN 1..(IF w < n THEN w ELSE n) ELSE 1..(n + w)

\* variant: ma[:w-1, :] = np.nan
ForceNaN_short(m, w) ==
    [t \in 1..NRows(m) |->
        IF t \in SliceRows(NRows(m), w - 1) THEN [c \in 1..NCols(m) |-> NaN] ELSE m[t]]

\* ma[:w, :] = np.nan
ForceNaN(m, w) ==
    [t \in 1..NRows(m) |->
        IF t \in SliceRows(NRows(m), w) THEN [c \in 1..NCols(m) |-> NaN] ELSE m[t]]

\* the min_periods rule on every statistic of a cache entry:
\* ma_nb 32-33, bb_nb 88-90, rsi_nb 164-166
MinPeriods(stat, w) ==
    IF min_periods THEN [s \in 1..Len(stat) |-> ForceNaN(stat[s], w)] ELSE stat

\* d[key] = v of a dictionary
Put(d, key, v) == [x \in DOMAIN d \cup {key} |-> IF x = key THEN v ELSE d[x]]

\* m[:, i*C:(i+1)*C] = blk
SetBlock(m, b, blk) ==
    [t \in 1..NRows(m) |-> [cc \in 1..NCols(m) |->
        IF (b - 1) * C < cc /\ cc <= b * C THEN blk[t][cc - (b - 1) * C] ELSE m[t][cc]]]

\* the cache key of slow_mas' block b (line 40)
MaSlowKey(b) == slow_windows[b]

\* ma + ks[i] * mstd, kept symbolic
Band(ma, mult, sd) ==
    [t \in 1..NRows(ma) |-> [c \in 1..NCols(ma) |->
        IF IsNaN(ma[t][c]) \/ IsNaN(sd[t][c]) THEN NaN
        ELSE [k |-> "band", mid |-> ma[t][c], mult |-> mult, dev |-> sd[t][c]]]]

\* 100 - 100 / (1 + roll_up / roll_down)
RsiOf(up, down) ==
    [t \in 1..NRows(up) |-> [c \in 1..NCols(up) |->
        Norm(FSub(Num(100),
                  FDiv(Num(100), FAdd(One, FDiv(up[t][c], down[t][c])))))]]

\* line 22 / line 150 (bb_nb has no such line)
Begin ==
    /\ pc = "begin"
    /\ unique_windows' = CacheKeys
    /\ cache_d' = <<>>
    /\ i' = 1
    /\ pc' = "cache"
    /\ UNCHANGED <<argVars, col_idx, t_idx, state, entry_idx, exit_mask, i_exits, exits,
                   trig, maskVars, raw_d, n_roll, out>>

\* one iteration of the cache loop
CacheCompute ==
    /\ pc = "cache" /\ i <= Len(unique_windows)
    /\ ~RollingRejects(unique_windows[i])
    /\ LET w == unique_windows[i] IN
        /\ raw_d' = Put(raw_d, w, RollingStat(w))
        /\ cache_d' = Put(cache_d, w, MinPeriods(RollingStat(w), w))
    /\ n_roll' = n_roll + 1
    /\ i' = i + 1
    /\ UNCHANGED <<argVars, pc, col_idx, t_idx, state, entry_idx, exit_mask, i_exits,
                   exits, trig, maskVars, unique_windows, out>>

\* the rolling routine raises: the call ends without a result
CacheReject ==
    /\ pc = "cache" /\ i <= Len(unique_windows)
    /\ RollingRejects(unique_windows[i])
    /\ pc' = "error"
    /\ UNCHANGED <<argVars, scanVars, maskVars, indVars>>

\* the result matrices are allocated (np.empty)
Allocate ==
    /\ pc = "cache" /\ i > Len(unique_windows)
    /\ out' = [m \in 1..(IF call = "ma" THEN 2 ELSE IF call = "bb" THEN 3 ELSE 1) |->
                  Full(T, C * K, Uninit)]
    /\ i' = 1
    /\ pc' = "stack"
    /\ UNCHANGED <<argVars, col_idx, t_idx, state, entry_idx, exit_mask, i_exits, exits,
                   trig, maskVars, unique_windows, cache_d, raw_d, n_roll>>

\* one iteration of the stacking loop: ma_nb 38-40, bb_nb 96-100, rsi_nb 170-172
Stack ==
    /\ pc = "stack" /\ i <= K
    /\ out' =
        IF call = "ma" THEN
            <<SetBlock(out[1], i, cache_d[fast_windows[i]][1]),
              SetBlock(out[2], i, cache_d[MaSlowKey(i)][1])>>
        ELSE IF call = "bb" THEN
            LET e == cache_d[fast_windows[i]] IN
            <<SetBlock(out[1], i, Band(e[1], slow_windows[i], e[2])),
              SetBlock(out[2], i, e[1]),
              SetBlock(out[3], i, Band(e[1], -slow_windows[i], e[2]))>>
        ELSE
            LET e == cache_d[fast_windows[i]] IN
            <<SetBlock(out[1], i, RsiOf(e[1], e[2]))>>
    /\ i' = i + 1
    /\ UNCHANGED <<argVars, pc, col_idx, t_idx, state, entry_idx, exit_mask, i_exits,
                   exits, trig, maskVars, unique_windows, cache_d, raw_d, n_roll>>

Return ==
    /\ pc = "stack" /\ i > K
    /\ pc' = "done"
    /\ UNCHANGED <<argVars, scanVars, maskVars, indVars>>

NextInd == Begin \/ CacheCompute \/ CacheReject \/ Allocate \/ Stack \/ Return

(***************************************************************************)
(* The calls checked: MovingAverage, BollingerBands, RSI                   *)
(***************************************************************************)
MaxK    == 2
IndCols == 2

\* windows: one the rolling routines reject, two within T, one beyond T
WindowVals == {0, 1, 2, MaxT + 1}
StdNs == {1, 2}

\* price columns: rising, falling, zigzag
IndColumns ==
    {[t \in 1..MaxT |-> t], [t \in 1..MaxT |-> MaxT + 1 - t], [t \in 1..MaxT |-> 1 + (t % 2)]}

InitInd ==
    /\ call \in {"ma", "bb", "rsi"}
    /\ \E col \in IndColumns :
          ts = [t \in 1..MaxT |-> [c \in 1..IndCols |-> Num(col[t] + c - 1)]]
    /\ \E n \in 1..MaxK :
          /\ fast_windows \in [1..n -> WindowVals]
          /\ IF call = "ma" THEN slow_windows \in [1..n -> WindowVals]
             ELSE IF call = "bb" THEN slow_windows \in [1..n -> StdNs]
             ELSE slow_windows = Idle
    /\ min_periods \in BOOLEAN
    /\ IF call = "bb" THEN ewm = FALSE ELSE ewm \in BOOLEAN
    /\ IF ewm THEN adjust \in BOOLEAN ELSE adjust = FALSE
    /\ pc = "begin"
    /\ entries = Idle /\ stops = Idle /\ is_relative = FALSE /\ only_first = FALSE
    /\ i = 1 /\ col_idx = 1 /\ t_idx = 1
    /\ state = "FLAT" /\ entry_idx = 0
    /\ exit_mask = Idle /\ i_exits = Idle /\ exits = Idle /\ trig = <<>>
    /\ peak = Idle /\ raising_idxs = {} /\ stop_lvl = Idle /\ thr = Idle
    /\ unique_windows = Idle /\ cache_d = Idle /\ raw_d = Idle /\ n_roll = 0
    /\ out = Idle

SpecInd == InitInd /\ [][NextInd]_vars

(***************************************************************************)
(* Properties of the exit scan                                             *)
(***************************************************************************)
IsExitCall == call \in {"stoploss", "tstop"}

\* the exits emitted so far for block p, column c, in the order emitted
TrigOf(p, c) == SelectSeq(trig, LAMBDA r : r.p = p /\ r.c = c)

\* the anchor e is the first entry of column c after index prev
FirstEntryAfter(c, prev, e) ==
    /\ prev < e
    /\ entries[e][c]
    /\ \A u \in (prev + 1)..(e - 1) : ~entries[u][c]

\* every episode of the exits in recs starts at the first entry after the
\* exit of the one before it, and ends after it started
Serial(c, recs) ==
    \A k \in 1..Len(recs) :
        /\ FirstEntryAfter(c, IF k = 1 THEN 0 ELSE recs[k - 1].exit, recs[k].entry)
        /\ recs[k].entry < recs[k].exit

\* C1: with only_first, a (p, c) scan has at most one open position: every
\* episode is anchored at the first entry strictly after the exit of the
\* episode before it (at the first entry of the column for the first one), so
\* an entry met while ARMED, or at the index of the exit itself, neither
\* re-arms the scan nor anchors an exit.
C1_OneOpenPosition ==
    (IsExitCall /\ only_first) =>
        /\ \A p \in 1..P : \A c \in 1..C : Serial(c, TrigOf(p, c))
        /\ (pc = "scan" /\ state = "ARMED") =>
              LET recs == TrigOf(i, col_idx) IN
              /\ FirstEntryAfter(col_idx,
                                 IF recs = <<>> THEN 0 ELSE recs[Len(recs)].exit,
                                 entry_idx)
              /\ entry_idx < t_idx

\* an exit anchored at an entry, an entry ignored while that episode was open,
\* and the scan armed again by an entry after the exit
C1_Witness ==
    /\ IsExitCall /\ only_first
    /\ pc = "scan" /\ state = "ARMED"
    /\ \E k \in 1..Len(trig) :
          /\ trig[k].p = i /\ trig[k].c = col_idx
          /\ trig[k].exit < entry_idx
          /\ \E u \in (trig[k].entry + 1)..(trig[k].exit - 1) : entries[u][col_idx]

TrueIdxs(col) == {t \in 1..Len(col) : col[t]}

\* the result column of column c of block p
ResultColumn(p, c) == (p - 1) * C + c

\* C2: with only_first, in every (p, c) run the true exits are exactly the
\* exits emitted, each for an entry of its own that lies strictly before it,
\* the entries increase with the exits, and there are no more exits than
\* entries.
C2_ExitsMatchEntries ==
    (IsExitCall /\ only_first /\ pc = "done") =>
        \A p \in 1..P : \A c \in 1..C :
            LET recs == TrigOf(p, c)
                X    == TrueIdxs(exits[ResultColumn(p, c)])
                E    == TrueIdxs(Column(entries, c))
            IN  /\ X = {recs[k].exit : k \in 1..Len(recs)}
                /\ \A k \in 1..Len(recs) :
                      recs[k].entry \in E /\ recs[k].entry < recs[k].exit
                /\ \A j, k \in 1..Len(recs) :
                      j < k => /\ recs[j].exit < recs[k].exit
                               /\ recs[j].entry < recs[k].entry
                /\ Cardinality(X) <= Cardinality(E)

\* a finished run with two exits in one column and an entry that got no exit
C2_Witness ==
    /\ IsExitCall /\ only_first /\ pc = "done"
    /\ \E p \in 1..P : \E c \in 1..C :
          /\ Cardinality(TrueIdxs(exits[ResultColumn(p, c)])) = 2
          /\ Cardinality(TrueIdxs(Column(entries, c))) = 3

\* the stop-loss threshold of an episode of block p, column c, entered at e
FrozenStop(p, c, e) ==
    IF is_relative THEN FMul(FSub(One, stops[p][e][c]), ts[e][c]) ELSE stops[p][e][c]

\* the threshold had it been read at the scan index u
ScanIndexStop(p, c, e, u) ==
    IF is_relative THEN FMul(FSub(One, stops[p][u][c]), ts[e][c]) ELSE stops[p][u][c]

\* C3: fixed stop-loss with only_first: every exit is at the first index
\* after its entry whose price is below the threshold frozen at the entry,
\* an episode without such an index emits nothing, and price
\* [10, 9, 11, 8, 12] with one entry at the start and stop 0.1 relative
\* exits at the fourth index only.
C3_FrozenStopLoss ==
    (call = "stoploss" /\ only_first) =>
        /\ \A k \in 1..Len(trig) :
              LET r == trig[k] IN
              /\ r.entry < r.exit
              /\ FLt(ts[r.exit][r.c], FrozenStop(r.p, r.c, r.entry))
              /\ \A u \in (r.entry + 1)..(r.exit - 1) :
                    ~FLt(ts[u][r.c], FrozenStop(r.p, r.c, r.entry))
        /\ (pc = "scan" /\ state = "ARMED") =>
              \A u \in (entry_idx + 1)..(t_idx - 1) :
                  ~FLt(ts[u][col_idx], FrozenStop(i, col_idx, entry_idx))
        /\ (ScenarioStoploss /\ pc = "done") =>
              exits = <<<<FALSE, FALSE, FALSE, TRUE, FALSE>>>>

\* an exit where the stop read at the exit index would not have been breached
C3_Witness ==
    /\ call = "stoploss" /\ only_first
    /\ \E k \in 1..Len(trig) :
          LET r == trig[k] IN
          ~FLt(ts[r.exit][r.c], ScanIndexStop(r.p, r.c, r.entry, r.exit))

\* max(price[e..u]) of column c
PeakSince(c, e, u) ==
    CHOOSE m \in {ts[v][c] : v \in e..u} : \A v \in e..u : ~FLt(m, ts[v][c])

\* the trailing threshold of a constant relative stop
TrailingStop(p, c, e, u) == FMul(FSub(One, stops[p][e][c]), PeakSince(c, e, u))

\* C4: trailing stop, constant relative stop, only_first: every exit is at
\* the first index after its entry whose price is below (1 - stop) times the
\* maximum of the prices from the entry to that index, an episode without
\* such an index emits nothing, and price [10, 12, 11, 15, 9] with one entry
\* at the start and stop 0.2 exits at the fifth index only.
C4_TrailingConstant ==
    (call = "tstop" /\ only_first /\ is_relative) =>
        /\ \A k \in 1..Len(trig) :
              LET r == trig[k] IN
              /\ r.entry < r.exit
              /\ FLt(ts[r.exit][r.c], TrailingStop(r.p, r.c, r.entry, r.exit))
              /\ \A u \in (r.entry + 1)..(r.exit - 1) :
                    ~FLt(ts[u][r.c], TrailingStop(r.p, r.c, r.entry, u))
        /\ (pc = "scan" /\ state = "ARMED") =>
              \A u \in (entry_idx + 1)..(t_idx - 1) :
                  ~FLt(ts[u][col_idx], TrailingStop(i, col_idx, entry_idx, u))
        /\ (ScenarioTstop /\ pc = "done") =>
              exits = <<<<FALSE, FALSE, FALSE, FALSE, TRUE>>>>

\* an exit below a peak that rose after the entry, with a higher price
\* before the entry
C4_Witness ==
    /\ call = "tstop" /\ only_first /\ is_relative
    /\ \E k \in 1..Len(trig) :
          LET r == trig[k] IN
          /\ FLt(ts[r.entry][r.c], PeakSince(r.c, r.entry, r.exit))
          /\ \E v \in 1..(r.entry - 1) : FLt(ts[r.entry][r.c], ts[v][r.c])

(***************************************************************************)
(* generate_exits_nb as a function of its arguments: the scan above, run   *)
(* over every column                                                       *)
(***************************************************************************)
ExitMaskOf(fn, ents, c, e, tsm, stop, rel) ==
    IF fn = "stoploss" THEN stoploss_exit_mask_nb(ents, c, e, tsm, stop, rel)
    ELSE tstop_exit_mask_nb(ents, c, e, tsm, stop, rel)

generate_exits_nb(ents, fn, first, tsm, stop, rel) ==
    LET n == NRows(tsm)
        scan[c \in 1..NCols(tsm), t \in 0..n] ==
            IF t = 0 THEN [st |-> "FLAT", m |-> AllFalse(n), x |-> AllFalse(n)]
            ELSE LET s == scan[c, t - 1] IN
                 IF s.st = "FLAT" /\ ents[t][c]
                 THEN [s EXCEPT !.st = "ARMED",
                                !.m = ExitMaskOf(fn, ents, c, t, tsm, stop, rel)]
                 ELSE IF s.m[t]
                 THEN [st |-> "FLAT",
                       m |-> IF first THEN AllFalse(n) ELSE s.m,
                       x |-> [s.x EXCEPT ![t] = TRUE]]
                 ELSE s
    IN  [t \in 1..n |-> [c \in 1..NCols(tsm) |-> scan[c, n].x[t]]]

(***************************************************************************)
(* Properties of the sweeps                                                *)
(***************************************************************************)
InitSweep == InitExit \/ InitInd
NextSweep == NextExit \/ NextInd
SpecSweep == InitSweep /\ [][NextSweep]_vars

\* the result of the same exit call with the p-th stop alone
SingleExits(p) ==
    generate_exits_nb(entries, call, only_first, ts, stops[p], is_relative)

\* the cache entry a call with window w alone computes
SingleStat(w) == MinPeriods(RollingStat(w), w)

\* the results of the same indicator call with the b-th parameters alone
SingleInd(b) ==
    IF call = "ma" THEN
        <<SingleStat(fast_windows[b])[1], SingleStat(slow_windows[b])[1]>>
    ELSE IF call = "bb" THEN
        LET e == SingleStat(fast_windows[b]) IN
        <<Band(e[1], slow_windows[b], e[2]), e[1], Band(e[1], -slow_windows[b], e[2])>>
    ELSE
        LET e == SingleStat(fast_windows[b]) IN <<RsiOf(e[1], e[2])>>

\* columns (b-1)*C+1 .. b*C of a result matrix
BlockOf(m, b) == [t \in 1..Len(m) |-> [c \in 1..C |-> m[t][(b - 1) * C + c]]]

\* C5: the result of a finished sweep is laid out in blocks of width C in
\* the order of the parameters, and block b is what the same call returns
\* when it is given the b-th parameter alone.
C5_BlockIndependence ==
    /\ (IsExitCall /\ pc = "done") =>
          \A p \in 1..P : \A c \in 1..C :
              exits[(p - 1) * C + c] = Column(SingleExits(p), c)
    /\ (~IsExitCall /\ pc = "done") =>
          \A b \in 1..K : \A m \in 1..Len(out) :
              BlockOf(out[m], b) = SingleInd(b)[m]

\* a finished sweep of two stops over two columns whose blocks differ
C5_Witness ==
    /\ IsExitCall /\ pc = "done"
    /\ P = 2 /\ C = 2
    /\ <<exits[1], exits[2]>> # <<exits[3], exits[4]>>
    /\ exits[1] # exits[2]

\* the distinct windows of the call
DistinctWindows ==
    Range(fast_windows) \cup (IF call = "ma" THEN Range(slow_windows) ELSE {})

IsIndCall == call \in {"ma", "bb", "rsi"}

\* C6: once the cache loop of an indicator call is over, the rolling
\* statistic has been computed as many times as the call has distinct
\* windows.
C6_OncePerDistinctWindow ==
    (IsIndCall /\ pc \in {"stack", "done"}) =>
        n_roll = Cardinality(DistinctWindows)

\* the same, of ma_nb and rsi_nb only
C6_HoldsWithUnique ==
    (call \in {"ma", "rsi"} /\ pc \in {"stack", "done"}) =>
        n_roll = Cardinality(DistinctWindows)

AllNaN(row) == \A c \in 1..Len(row) : IsNaN(row[c])

\* C7: with min_periods, every cached statistic of window w has NaN in its
\* first min(w, T) rows and what the rolling routine returned in the rows
\* after them, and so has every block of a moving-average result; a window
\* beyond T gives a block that is NaN throughout.
C7_MinPeriodsRows ==
    (IsIndCall /\ min_periods) =>
        /\ \A w \in DOMAIN cache_d : \A s \in 1..Len(cache_d[w]) : \A t \in 1..T :
              /\ t <= w => AllNaN(cache_d[w][s][t])
              /\ t > w => cache_d[w][s][t] = raw_d[w][s][t]
        /\ (call = "ma" /\ pc = "done") =>
              \A b \in 1..K : \A t \in 1..T :
                  LET f  == fast_windows[b]
                      sl == slow_windows[b]
                  IN  /\ t <= f => AllNaN(BlockOf(out[1], b)[t])
                      /\ t > f => BlockOf(out[1], b)[t] = raw_d[f][1][t]
                      /\ t <= sl => AllNaN(BlockOf(out[2], b)[t])
                      /\ t > sl => BlockOf(out[2], b)[t] = raw_d[sl][1][t]

\* a finished moving-average sweep with a window beyond T and a window
\* within T whose last warm-up row the rolling routine had filled
C7_Witness ==
    /\ call = "ma" /\ min_periods /\ pc = "done"
    /\ \E b \in 1..K : fast_windows[b] > T /\ \A t \in 1..T : AllNaN(BlockOf(out[1], b)[t])
    /\ \E b \in 1..K :
          LET w == slow_windows[b] IN
          /\ w < T
          /\ IsNum(raw_d[w][1][w][1])
          /\ IsNaN(out[2][w][(b - 1) * C + 1])
          /\ IsNum(out[2][w + 1][(b - 1) * C + 1])

HasBadWindow == \E w \in DistinctWindows : w <= 0

\* C8: a call with a window <= 0 computes no rolling statistic, creates no
\* cache entry and returns no result.
C8_EagerRejection ==
    (IsIndCall /\ HasBadWindow) =>
        /\ n_roll = 0
        /\ DOMAIN cache_d = {}
        /\ pc \notin {"stack", "done"}

\* the same, of ma_nb and rsi_nb only
C8_HoldsWithUnique ==
    (call \in {"ma", "rsi"} /\ HasBadWindow) =>
        /\ n_roll = 0
        /\ DOMAIN cache_d = {}
        /\ pc \notin {"stack", "done"}

(***************************************************************************)
(* Properties of the trailing-stop mask                                    *)
(***************************************************************************)
\* the single pass that carries (level, peak) from the entry on and takes a
\* new level only where the price exceeds the peak
RatchetPass(col, stop, e) ==
    LET acc[t \in e..Len(col)] ==
            IF t = e THEN [lvl |-> stop[e], pk |-> col[e]]
            ELSE IF FLt(acc[t - 1].pk, col[t]) THEN [lvl |-> stop[t], pk |-> col[t]]
            ELSE acc[t - 1]
    IN  acc

RatchetThreshold(a) == IF is_relative THEN FMul(FSub(One, a.lvl), a.pk) ELSE a.lvl

\* C9: for a stop column that varies, the level and the mask the call
\* computes are, from the entry on, those of the single pass.
C9_RatchetEquivalence ==
    (call = "mask" /\ pc = "mask_done" /\ StopVaries(MaskStop)) =>
        LET acc == RatchetPass(MaskCol, MaskStop, entry_idx) IN
        \A t \in entry_idx..T :
            /\ stop_lvl[t] = acc[t].lvl
            /\ exit_mask[t] = FLt(MaskCol[t], RatchetThreshold(acc[t]))

\* a new peak at index t of the episode
NewPeakAt(t) == FLt(PeakSince(1, entry_idx, t - 1), ts[t][1])

\* the threshold never falls and moves only at a new peak
RatchetFrom(e) ==
    \A t \in (e + 1)..T :
        /\ ~FLt(thr[t], thr[t - 1])
        /\ ~FEq(thr[t], thr[t - 1]) => NewPeakAt(t)

====
